---- MODULE Spec2Model ----
(***************************************************************************)
(* Model of the readers of webapp/graphite/readers.py: MultiReader.fetch   *)
(* and MultiReader.merge, CeresReader.fetch (the carbon cache overlay),    *)
(* RRDReader.fetch and RRDReader.get_retention.                            *)
(*                                                                         *)
(* Python values are modelled as follows.  A result is the pair            *)
(* <<time_info, values>> with time_info = <<start, end, step>>; Python's   *)
(* 0-based index i of a list is position i + 1 of the sequence.  Integers  *)
(* are Python 2 ints, so "/" is floor division (\div).  A call returns the *)
(* record [exc |-> "none", val |-> v] or raises: [exc |-> name, val |-> 0].*)
(* Datapoint values are opaque to the readers (they are only compared to   *)
(* None), so every stored value is a tag that names where it is stored.    *)
(***************************************************************************)
EXTENDS Integers, Sequences, FiniteSets, TLC

VARIABLES pc, results, data, endTime, cached_datapoints, queries,
          rrd, datasource_name, info, ret

vars == <<pc, results, data, endTime, cached_datapoints, queries,
          rrd, datasource_name, info, ret>>

\* Bounds of the model.
MaxStart == 1
MaxSpan == 2
MaxStep == 3

\* Python's None (an absent datapoint); stored values are positive tags.
None == -1
\* Marks, inside an expression, that evaluating it raised IndexError.
IndexError == -2

Return(v) == [exc |-> "none", val |-> v]
Raise(name) == [exc |-> name, val |-> 0]

min(a, b) == IF a < b THEN a ELSE b
max(a, b) == IF a > b THEN a ELSE b

\* The least and the greatest element of a set of integers that is not empty.
MinOver(S) == CHOOSE x \in S : \A y \in S : x <= y
MaxOver(S) == CHOOSE x \in S : \A y \in S : x >= y

\* values[i] of a Python list: a negative i counts from the end of the list,
\* and an index outside -len .. len-1 raises IndexError.
GetItem(values, i) ==
  IF i >= 0 /\ i < Len(values) THEN values[i + 1]
  ELSE IF i < 0 /\ -i <= Len(values) THEN values[Len(values) + i + 1]
  ELSE IndexError

\* values[i] = value of a Python list: returns the list after the
\* assignment, or raises IndexError.
SetItem(values, i, value) ==
  IF i >= 0 /\ i < Len(values)
  THEN Return([values EXCEPT ![i + 1] = value])
  ELSE IF i < 0 /\ -i <= Len(values)
       THEN Return([values EXCEPT ![Len(values) + i + 1] = value])
  ELSE Raise("IndexError")

(***************************************************************************)
(* MultiReader                                                             *)
(***************************************************************************)

\* merge, lines 39-41: results1 is the finer of the two, the first on a tie.
Primary(results1, results2) ==
  IF results1[1][3] > results2[1][3] THEN results2 ELSE results1

Secondary(results1, results2) ==
  IF results1[1][3] > results2[1][3] THEN results1 ELSE results2

\* merge, lines 48-51, with the start of the primary for the earliest start.
MergeTimeInfoFromPrimary(time_info1, time_info2) ==
  <<time_info1[1], max(time_info1[2], time_info2[2]), time_info1[3]>>

\* merge, lines 48-51, of the time infos of the primary and the secondary.
MergeTimeInfo(time_info1, time_info2) ==
  <<min(time_info1[1], time_info2[1]),
    max(time_info1[2], time_info2[2]),
    time_info1[3]>>

\* merge, lines 57-74: the value appended for the timestamp t.
MergeValue(t, time_info1, values1, time_info2, values2) ==
  LET i1 == (t - time_info1[1]) \div time_info1[3]
      v1 == IF Len(values1) > i1 THEN GetItem(values1, i1) ELSE None
      i2 == (t - time_info2[1]) \div time_info2[3]
      v2 == IF Len(values2) > i2 THEN GetItem(values2, i2) ELSE None
  IN IF v1 = None THEN v2 ELSE v1

\* merge, lines 54-76: the while loop, from timestamp t with the values
\* appended so far; returns the values, or raises the IndexError of an
\* iteration.
RECURSIVE MergeLoop(_, _, _, _, _, _, _, _)
MergeLoop(t, end, step, values, time_info1, values1, time_info2, values2) ==
  IF t < end
  THEN LET v == MergeValue(t, time_info1, values1, time_info2, values2)
       IN IF v = IndexError THEN Raise("IndexError")
          ELSE MergeLoop(t + step, end, step, Append(values, v),
                         time_info1, values1, time_info2, values2)
  ELSE Return(values)

\* MultiReader.merge(results1, results2)
merge(results1, results2) ==
  LET r1 == Primary(results1, results2)
      r2 == Secondary(results1, results2)
      time_info == MergeTimeInfo(r1[1], r2[1])
      values == MergeLoop(time_info[1], time_info[2], time_info[3], <<>>,
                          r1[1], r1[2], r2[1], r2[2])
  IN IF values.exc /= "none" THEN values
     ELSE Return(<<time_info, values.val>>)

\* reduce(self.merge, rs) from the accumulated call result acc over the
\* remaining results rs; an exception of merge ends the reduction.
RECURSIVE Reduce(_, _)
Reduce(acc, rs) ==
  IF acc.exc /= "none" \/ rs = <<>> THEN acc
  ELSE Reduce(merge(acc.val, Head(rs)), Tail(rs))

\* MultiReader.fetch, line 36, on the list of the children's results.
MultiFetchResult(rs) == Reduce(Return(Head(rs)), Tail(rs))

\* The value stored by child n in slot i (0-based).
Tag(n, i) == 10 * n + i + 1

\* Number of values of a well-formed result: ceil((end - start) / step).
Slots(time_info) ==
  (time_info[2] - time_info[1] + time_info[3] - 1) \div time_info[3]

\* The well-formed results of child n: start <= end, step > 0, one value per
\* step of the window, each absent or the slot's tag.
TimeInfos ==
  { <<s, s + d, st>> : s \in 0..MaxStart, d \in 0..MaxSpan, st \in 1..MaxStep }

ChildResults(n) ==
  UNION { { <<ti, [i \in 1..Slots(ti) |->
                     IF i \in present THEN Tag(n, i - 1) ELSE None]>>
            : present \in SUBSET (1..Slots(ti)) }
          : ti \in TimeInfos }

\* The children's results of a MultiReader over two or three nodes.
IsResultList(rs) ==
  \/ \E a \in ChildResults(1), b \in ChildResults(2) : rs = <<a, b>>
  \/ \E a \in ChildResults(1), b \in ChildResults(2), c \in ChildResults(3) :
        rs = <<a, b, c>>

\* The values of the variables a specification does not use.
NoResult == <<<<0, 0, 1>>, <<>>>>
NoCache == [exc |-> FALSE, datapoints |-> <<>>]
NoRows == <<<<0, 0, 1>>, <<>>, <<>>>>

InitMulti ==
  /\ pc = "idle"
  /\ IsResultList(results)
  /\ data = NoResult
  /\ endTime = 0
  /\ cached_datapoints = NoCache
  /\ queries = 0
  /\ rrd = NoRows
  /\ datasource_name = ""
  /\ info = <<>>
  /\ ret = Return(NoResult)

\* MultiReader.fetch(startTime, endTime)
MultiReader_fetch ==
  /\ pc = "idle"
  /\ ret' = MultiFetchResult(results)
  /\ pc' = "done"
  /\ UNCHANGED <<results, data, endTime, cached_datapoints, queries,
                 rrd, datasource_name, info>>

NextMulti == MultiReader_fetch

SpecMulti == InitMulti /\ [][NextMulti]_vars

(***************************************************************************)
(* CeresReader                                                             *)
(***************************************************************************)

\* Bounds of the cache: timestamps and the requested end are in 0..MaxTime,
\* a response holds up to MaxCache datapoints.
MaxTime == 6
MaxCache == 2

\* fetch, lines 109-116: the loop over the cached datapoints, with the values
\* patched so far.  A datapoint is a record of its shape: "pair" is a
\* (timestamp, value) pair of numbers, "triple" is not a pair (the unpacking
\* of line 109 raises), "text_timestamp" is a pair whose timestamp is no
\* number (line 110 raises).  Only the assignment of lines 113-114 is inside
\* the try.
RECURSIVE CacheLoop(_, _, _)
CacheLoop(datapoints, time_info, values) ==
  IF datapoints = <<>> THEN Return(values)
  ELSE LET dp == Head(datapoints)
           interval == dp.timestamp - (dp.timestamp % time_info[3])
           i == (interval - time_info[1]) \div time_info[3]
           set == SetItem(values, i, dp.value)
       IN IF dp.shape = "triple" THEN Raise("ValueError")
          ELSE IF dp.shape = "text_timestamp" THEN Raise("TypeError")
          ELSE CacheLoop(Tail(datapoints), time_info,
                         IF set.exc = "none" THEN set.val ELSE values)

\* fetch, lines 103-107: the datapoints of the CarbonLink.query response; a
\* query that raises gives none.
CachedDatapoints(response) ==
  IF response.exc THEN <<>> ELSE response.datapoints

\* CeresReader.fetch(startTime, endTime) on the data ceres_node.read returns
\* and the response CarbonLink.query gives.
CeresFetchResult(d, end, response) ==
  IF d[1][2] < end
  THEN LET patched == CacheLoop(CachedDatapoints(response), d[1], d[2])
       IN IF patched.exc /= "none" THEN patched
          ELSE Return(<<d[1], patched.val>>)
  ELSE Return(d)

\* The data of ceres_node.read: a window aligned to the node's step, one
\* value per step.
IsCeresData(d) ==
  \E st \in 1..MaxStep, a \in 0..MaxStart, n \in 0..MaxSpan :
    \E present \in SUBSET (1..n) :
      d = <<<<a * st, a * st + n * st, st>>,
            [i \in 1..n |-> IF i \in present THEN Tag(1, i - 1) ELSE None]>>

\* The k-th datapoint of a response: a pair of a timestamp and the value
\* tagged k, or a malformed entry.
Datapoints(k) ==
  { [shape |-> "pair", timestamp |-> ts, value |-> Tag(2, k - 1)]
      : ts \in 0..MaxTime }
  \cup { [shape |-> sh, timestamp |-> 0, value |-> Tag(2, k - 1)]
           : sh \in {"triple", "text_timestamp"} }

IsResponse(r) ==
  \/ r = [exc |-> TRUE, datapoints |-> <<>>]
  \/ \E n \in 0..MaxCache :
       \E dps \in [1..n -> UNION { Datapoints(k) : k \in 1..MaxCache }] :
         /\ \A k \in 1..n : dps[k] \in Datapoints(k)
         /\ r = [exc |-> FALSE, datapoints |-> dps]

InitCeres ==
  /\ pc = "idle"
  /\ results = <<>>
  /\ IsCeresData(data)
  /\ endTime \in 0..MaxTime
  /\ IsResponse(cached_datapoints)
  /\ queries = 0
  /\ rrd = NoRows
  /\ datasource_name = ""
  /\ info = <<>>
  /\ ret = Return(NoResult)

\* CeresReader.fetch(startTime, endTime); queries counts the calls of
\* CarbonLink.query (line 104).
CeresReader_fetch ==
  /\ pc = "idle"
  /\ ret' = CeresFetchResult(data, endTime, cached_datapoints)
  /\ queries' = IF data[1][2] < endTime THEN queries + 1 ELSE queries
  /\ pc' = "done"
  /\ UNCHANGED <<results, data, endTime, cached_datapoints,
                 rrd, datasource_name, info>>

NextCeres == CeresReader_fetch

SpecCeres == InitCeres /\ [][NextCeres]_vars

(***************************************************************************)
(* RRDReader.fetch                                                         *)
(***************************************************************************)

\* Bound of the number of rows rrdtool.fetch returns.
MaxRows == 3

\* list(columns).index(name), line 175: the 0-based position of the first
\* column of that name; -1 stands for the ValueError of a missing name.
Index(columns, name) ==
  IF \E c \in 1..Len(columns) : columns[c] = name
  THEN MinOver({ c \in 1..Len(columns) : columns[c] = name }) - 1
  ELSE -1

\* rows.pop(0) in place of rows.pop(): the first row dropped.
PopFirst(rows) == Tail(rows)

\* rows.pop(), line 176, on a list that is not empty: the rows left.
Pop(rows) == SubSeq(rows, 1, Len(rows) - 1)

\* RRDReader.fetch, lines 174-179, on the (timeInfo, columns, rows) that
\* rrdtool.fetch returns; values is the sequence the generator yields.
RRDFetchResult(raw, name) ==
  LET timeInfo == raw[1]
      columns == raw[2]
      rows == raw[3]
      colIndex == Index(columns, name)
      popped == Pop(rows)
  IN IF colIndex < 0 THEN Raise("ValueError")
     ELSE IF rows = <<>> THEN Raise("IndexError")
     ELSE Return(<<timeInfo,
                   [k \in 1..Len(popped) |-> popped[k][colIndex + 1]]>>)

\* The value of row k (from 1) in column c (from 1).
Cell(k, c) == 10 * k + c

ColumnLists == { <<"a">>, <<"a", "b">>, <<"b", "a">> }

\* What rrdtool.fetch returns: a time info, the names of the datasources and
\* up to MaxRows rows of one value, possibly absent, per datasource.
IsRaw(raw) ==
  \E columns \in ColumnLists, n \in 0..MaxRows,
     s \in 0..MaxStart, st \in 1..MaxStep :
    \E present \in SUBSET ((1..n) \X (1..Len(columns))) :
      raw = <<<<s, s + n * st, st>>,
              columns,
              [k \in 1..n |-> [c \in 1..Len(columns) |->
                 IF <<k, c>> \in present THEN Cell(k, c) ELSE None]]>>

InitRRD ==
  /\ pc = "idle"
  /\ results = <<>>
  /\ data = NoResult
  /\ endTime = 0
  /\ cached_datapoints = NoCache
  /\ queries = 0
  /\ IsRaw(rrd)
  /\ \E c \in 1..Len(rrd[2]) : datasource_name = rrd[2][c]
  /\ info = <<>>
  /\ ret = Return(NoResult)

\* RRDReader.fetch(startTime, endTime)
RRDReader_fetch ==
  /\ pc = "idle"
  /\ ret' = RRDFetchResult(rrd, datasource_name)
  /\ pc' = "done"
  /\ UNCHANGED <<results, data, endTime, cached_datapoints, queries,
                 rrd, datasource_name, info>>

NextRRD == RRDReader_fetch

SpecRRD == InitRRD /\ [][NextRRD]_vars

(***************************************************************************)
(* RRDReader.get_retention                                                 *)
(*                                                                         *)
(* rrdtool.info returns a dict; info is the sequence of its <<key, value>> *)
(* entries in the order the dict enumerates them, and a key is the         *)
(* sequence of its characters.                                             *)
(***************************************************************************)

\* Bounds of the metadata: rows and pdp_per_row of a tier, and the step.
MaxTierRows == 2
MaxPdpPerRow == 2
MaxBaseStep == 2

\* key.startswith(prefix) and key.endswith(suffix)
startswith(key, prefix) ==
  Len(key) >= Len(prefix) /\ SubSeq(key, 1, Len(prefix)) = prefix

endswith(key, suffix) ==
  /\ Len(key) >= Len(suffix)
  /\ SubSeq(key, Len(key) - Len(suffix) + 1, Len(key)) = suffix

\* key[a:-b] of Python, for a >= 0 and b > 0.
Slice(key, a, b) == SubSeq(key, a + 1, Len(key) - b)

RraPrefix == <<"r", "r", "a", "[">>
RowsSuffix == <<"]", ".", "r", "o", "w", "s">>
PdpPerRowSuffix ==
  <<"]", ".", "p", "d", "p", "_", "p", "e", "r", "_", "r", "o", "w">>
StepKey == <<"s", "t", "e", "p">>

\* d[k] = v of a Python dict, as a function of its keys.
DictSet(d, k, v) ==
  [x \in (DOMAIN d) \cup {k} |-> IF x = k THEN v ELSE d[x]]

EmptyDict == [x \in {} |-> 0]

\* key[4:-5] in place of key[4:-6]: the id with the bracket that closes it.
RowsIdShort(key) == Slice(key, 4, 5)

\* get_retention, lines 200 and 204: the id of a rows key and of a
\* pdp_per_row key.
RowsId(key) == Slice(key, 4, 6)

PdpPerRowId(key) == Slice(key, 4, 13)

\* get_retention, lines 198-205: the loop over the entries es, from the rows
\* dict and the pdp_per_row dict built so far; the pair of the two dicts.
RECURSIVE RetentionLoop(_, _, _)
RetentionLoop(es, rows, pdp_per_row) ==
  IF es = <<>> THEN <<rows, pdp_per_row>>
  ELSE LET key == Head(es)[1]
           value == Head(es)[2]
       IN IF startswith(key, RraPrefix) /\ endswith(key, RowsSuffix)
          THEN RetentionLoop(Tail(es),
                             DictSet(rows, RowsId(key), value), pdp_per_row)
          ELSE IF startswith(key, RraPrefix) /\ endswith(key, PdpPerRowSuffix)
          THEN RetentionLoop(Tail(es), rows,
                             DictSet(pdp_per_row, PdpPerRowId(key), value))
          ELSE RetentionLoop(Tail(es), rows, pdp_per_row)

\* info[key]: the value of the entry of that key.
Lookup(es, key) ==
  LET k == CHOOSE k \in 1..Len(es) : es[k][1] = key
  IN es[k][2]

\* RRDReader.get_retention(fs_path), lines 194-207, on the entries of
\* rrdtool.info.
get_retention(es) ==
  LET dicts == RetentionLoop(es, EmptyDict, EmptyDict)
      rows == dicts[1]
      pdp_per_row == dicts[2]
  IN IF ~ \E k \in 1..Len(es) : es[k][1] = StepKey THEN Raise("KeyError")
     ELSE IF DOMAIN rows = {} THEN Raise("ValueError")
     ELSE IF ~ (DOMAIN rows \subseteq DOMAIN pdp_per_row)
          THEN Raise("KeyError")
     ELSE Return(Lookup(es, StepKey)
                 * MaxOver({ rows[id] * pdp_per_row[id] : id \in DOMAIN rows }))

\* The key of a field of the tier id.
RraKey(id, suffix) == RraPrefix \o id \o suffix

TierIds == <<<<"0">>, <<"1", "0">>>>

\* The entries of the info of a file of two tiers, in the order of the keys:
\* the step, the consolidation function, rows and pdp_per_row of the first
\* tier, rows and pdp_per_row of the second.
Entries(step, rows1, pdp1, rows2, pdp2) ==
  << <<StepKey, step>>,
     <<RraKey(TierIds[1], <<"]", ".", "c", "f">>), 0>>,
     <<RraKey(TierIds[1], RowsSuffix), rows1>>,
     <<RraKey(TierIds[1], PdpPerRowSuffix), pdp1>>,
     <<RraKey(TierIds[2], RowsSuffix), rows2>>,
     <<RraKey(TierIds[2], PdpPerRowSuffix), pdp2>> >>

Orders == { p \in [1..6 -> 1..6] : \A i, j \in 1..6 : p[i] = p[j] => i = j }

\* The metadata of a file: any tiers within the bounds, or the tiers
\* (rows 100, pdp_per_row 1) and (rows 50, pdp_per_row 12) at step 10, in any
\* order of enumeration.
IsInfo(es) ==
  \E p \in Orders :
    \/ \E step \in 1..MaxBaseStep,
          rows1 \in 1..MaxTierRows, pdp1 \in 1..MaxPdpPerRow,
          rows2 \in 1..MaxTierRows, pdp2 \in 1..MaxPdpPerRow :
         es = [k \in 1..6 |-> Entries(step, rows1, pdp1, rows2, pdp2)[p[k]]]
    \/ es = [k \in 1..6 |-> Entries(10, 100, 1, 50, 12)[p[k]]]

InitRetention ==
  /\ pc = "idle"
  /\ results = <<>>
  /\ data = NoResult
  /\ endTime = 0
  /\ cached_datapoints = NoCache
  /\ queries = 0
  /\ rrd = NoRows
  /\ datasource_name = ""
  /\ IsInfo(info)
  /\ ret = Return(0)

\* RRDReader.get_retention(fs_path)
RRDReader_get_retention ==
  /\ pc = "idle"
  /\ ret' = get_retention(info)
  /\ pc' = "done"
  /\ UNCHANGED <<results, data, endTime, cached_datapoints, queries,
                 rrd, datasource_name, info>>

NextRetention == RRDReader_get_retention

SpecRetention == InitRetention /\ [][NextRetention]_vars

(***************************************************************************)
(* Properties of MultiReader                                               *)
(***************************************************************************)

Start(r) == r[1][1]
End(r) == r[1][2]
Step(r) == r[1][3]
Values(r) == r[2]

Fetched == pc = "done"
Returned == pc = "done" /\ ret.exc = "none"

\* The timestamp of the k-th value (k from 1) of a result.
TimeOf(r, k) == Start(r) + (k - 1) * Step(r)

\* The value a result holds for the timestamp t: that of the slot
\* floor((t - start) / step), absent when t is outside the series.
ValueAt(r, t) ==
  LET i == (t - Start(r)) \div Step(r)
  IN IF t >= Start(r) /\ i < Len(Values(r)) THEN Values(r)[i + 1] ELSE None

\* The timestamps start, start + step, ... below end.
RECURSIVE Timestamps(_, _, _)
Timestamps(t, end, step) ==
  IF t < end THEN <<t>> \o Timestamps(t + step, end, step) ELSE <<>>

\* The series C1 describes for two results.
Overlay(results1, results2) ==
  LET p == IF Step(results2) < Step(results1) THEN results2 ELSE results1
      s == IF Step(results2) < Step(results1) THEN results1 ELSE results2
      start == min(Start(results1), Start(results2))
      end == max(End(results1), End(results2))
      ts == Timestamps(start, end, Step(p))
  IN <<<<start, end, Step(p)>>,
       [k \in 1..Len(ts) |->
          IF ValueAt(p, ts[k]) /= None THEN ValueAt(p, ts[k])
          ELSE ValueAt(s, ts[k])]>>

\* C1: merge of two well-formed results returns the overlay of the finer
\* result (the first on a tie) on the other: at every output timestamp the
\* primary's value when the timestamp is inside the primary's series and the
\* value is not absent, else the secondary's value at its own index, absent
\* when that index is out of the secondary's range.
C1_MergeIsOverlay ==
  (Fetched /\ Len(results) = 2) =>
     ret = Return(Overlay(results[1], results[2]))

\* The child a value of the output was stored by.
ChildOf(v) == v \div 10

\* C2: no value of the output of fetch comes from a child when a child of a
\* strictly finer step holds a value for the same timestamp inside its range.
C2_FinerValueWins ==
  Returned =>
    \A k \in 1..Len(Values(ret.val)) :
      LET v == Values(ret.val)[k]
          t == TimeOf(ret.val, k)
      IN v /= None =>
           ~ \E j \in 1..Len(results) :
                /\ Step(results[j]) < Step(results[ChildOf(v)])
                /\ ValueAt(results[j], t) /= None

\* C6: fetch over well-formed child results never raises.
C6_FetchNeverRaises == Fetched => ret.exc = "none"

\* C8: the result of fetch has the earliest start, the latest end and the
\* finest step of the children, and ceil((end - start) / step) values.
C8_TimeInfoAndLength ==
  Returned =>
    /\ ret.val[1] =
         <<MinOver({ Start(results[j]) : j \in 1..Len(results) }),
           MaxOver({ End(results[j]) : j \in 1..Len(results) }),
           MinOver({ Step(results[j]) : j \in 1..Len(results) })>>
    /\ Len(Values(ret.val)) = Slots(ret.val[1])

\* Three children, the finest last and the latest to start, and a result of
\* several values.
C8_Witness ==
  /\ Returned
  /\ Len(results) = 3
  /\ Step(results[3]) < Step(results[1])
  /\ Step(results[1]) < Step(results[2])
  /\ Start(results[3]) > Start(results[2])
  /\ End(results[1]) > End(results[3])
  /\ Len(Values(ret.val)) >= 3

\* merge of two call results: an exception of either is the exception of
\* the whole.
MergeCalls(c1, c2) ==
  IF c1.exc /= "none" THEN c1
  ELSE IF c2.exc /= "none" THEN c2
  ELSE merge(c1.val, c2.val)

Permutations3 ==
  { <<1, 2, 3>>, <<1, 3, 2>>, <<2, 1, 3>>, <<2, 3, 1>>, <<3, 1, 2>>, <<3, 2, 1>> }

\* C9: for three results of pairwise distinct steps, fetch returns the same
\* result for every order of the children and for the other grouping.
C9_OrderAndGroupingIrrelevant ==
  (/\ Fetched
   /\ Len(results) = 3
   /\ Cardinality({ Step(results[j]) : j \in 1..3 }) = 3) =>
     /\ \A p \in Permutations3 :
          ret = MultiFetchResult([j \in 1..3 |-> results[p[j]]])
     /\ ret = MergeCalls(Return(results[1]), merge(results[2], results[3]))

(***************************************************************************)
(* Properties of CeresReader                                               *)
(***************************************************************************)

\* fetch looked the cache up.
Queried == Fetched /\ data[1][2] < endTime

\* The response of the cache is a sequence of (timestamp, value) pairs.
WellFormedResponse ==
  /\ ~ cached_datapoints.exc
  /\ \A k \in 1..Len(cached_datapoints.datapoints) :
       cached_datapoints.datapoints[k].shape = "pair"

\* The bucket of a timestamp at the step of the data.
Bucket(ts) == ts - (ts % data[1][3])

\* The last datapoint of the response whose bucket is b, 0 when there is none.
LastIn(b) ==
  LET dps == cached_datapoints.datapoints
      S == { k \in 1..Len(dps) : Bucket(dps[k].timestamp) = b }
  IN IF S = {} THEN 0 ELSE MaxOver(S)

\* C3: every cached datapoint with a timestamp from the end of the on-disk
\* data up to the requested end is in the returned series, at the slot of
\* its bucket (the last datapoint of a bucket is the one that stays).
C3_CacheValuesReflected ==
  (Queried /\ WellFormedResponse) =>
    \A k \in 1..Len(cached_datapoints.datapoints) :
      LET dp == cached_datapoints.datapoints[k]
          i == (Bucket(dp.timestamp) - data[1][1]) \div data[1][3]
      IN (/\ dp.timestamp >= data[1][2]
          /\ dp.timestamp < endTime
          /\ LastIn(Bucket(dp.timestamp)) = k) =>
            /\ ret.exc = "none"
            /\ i < Len(ret.val[2])
            /\ ret.val[2][i + 1] = dp.value

\* C4: the returned values are the on-disk values, but for the slots whose
\* bucket some cached datapoint falls in; a datapoint whose bucket is outside
\* the on-disk window changes nothing, and fetch does not raise.
C4_OnlyBucketsInsideWindowPatched ==
  (Queried /\ WellFormedResponse) =>
    /\ ret.exc = "none"
    /\ ret.val[1] = data[1]
    /\ Len(ret.val[2]) = Len(data[2])
    /\ \A i \in 1..Len(data[2]) :
         LET k == LastIn(data[1][1] + (i - 1) * data[1][3])
         IN ret.val[2][i] =
              IF k = 0 THEN data[2][i]
              ELSE cached_datapoints.datapoints[k].value

\* C5: when the cache lookup fails (the query raises, or its response is
\* malformed), fetch returns the on-disk data as they are, having queried
\* the cache once.
C5_CacheFailureDegrades ==
  (Queried /\ ~ WellFormedResponse) =>
    /\ ret = Return(data)
    /\ queries = 1

(***************************************************************************)
(* Properties of RRDReader.fetch                                           *)
(***************************************************************************)

\* C7: of N >= 1 rows, fetch returns the column of the reader's datasource
\* of the first N - 1 rows, in order, and the time info of rrdtool unchanged.
C7_LastRowDropped ==
  (Fetched /\ Len(rrd[3]) >= 1) =>
    /\ ret.exc = "none"
    /\ ret.val[1] = rrd[1]
    /\ Len(ret.val[2]) = Len(rrd[3]) - 1
    /\ \A k \in 1..Len(ret.val[2]) :
         \E c \in 1..Len(rrd[2]) :
           /\ rrd[2][c] = datasource_name
           /\ ret.val[2][k] = rrd[3][k][c]

\* Three rows of two datasources, the reader bound to the second, with a
\* value in every row.
C7_Witness ==
  /\ Fetched
  /\ Len(rrd[3]) = 3
  /\ Len(rrd[2]) = 2
  /\ datasource_name = rrd[2][2]
  /\ \A k \in 1..3 : rrd[3][k][2] /= None
  /\ ret.exc = "none"
  /\ ret.val[2] = <<Cell(1, 2), Cell(2, 2)>>

(***************************************************************************)
(* Properties of RRDReader.get_retention                                   *)
(***************************************************************************)

\* The value of a field of a tier in the metadata.
Field(id, suffix) == Lookup(info, RraKey(id, suffix))

\* C10: get_retention returns the step times the greatest, over the tiers,
\* of the tier's rows times the same tier's pdp_per_row, whatever the order
\* of the keys; 6000 for (100, 1) and (50, 12) at step 10.
C10_Retention ==
  Fetched =>
    /\ ret = Return(Lookup(info, StepKey)
                    * MaxOver({ Field(TierIds[t], RowsSuffix)
                                * Field(TierIds[t], PdpPerRowSuffix)
                                : t \in 1..2 }))
    /\ (/\ Lookup(info, StepKey) = 10
        /\ Field(TierIds[1], RowsSuffix) = 100) => ret = Return(6000)

\* The tiers of the example, the keys of the second tier enumerated before
\* those of the first and pdp_per_row before rows.
C10_Witness ==
  /\ Fetched
  /\ ret = Return(6000)
  /\ info[1][1] = RraKey(TierIds[2], PdpPerRowSuffix)
  /\ info[2][1] = RraKey(TierIds[1], PdpPerRowSuffix)
  /\ info[6][1] = RraKey(TierIds[1], RowsSuffix)

====
